---- MODULE Spec2Model ----
(***************************************************************************)
(* Department Hierarchy & Lifecycle Service of the HRMS project.            *)
(*                                                                          *)
(* The department store is the prisma.department relation; a department's   *)
(* id is its index in the sequence depts (uuid assigned by the repository). *)
(* Employees and positions are the relations the service only reads.        *)
(* Strings (names, descriptions) are sequences of one-character strings so  *)
(* that trimming and case folding are computed, not assumed.                *)
(***************************************************************************)
EXTENDS Integers, Sequences, FiniteSets, TLC

(* ---------------- bounds of the model ---------------- *)
MaxDepts == 2
MaxNameLen == 1
MaxFields == 1
MaxCalls == 2
MaxHops == 21
MaxPage == 3
NumEmployees == 1
NumPositions == 1
DeepLen == 51
CycleDepts == 3
UiDepts == 11

(* ---------------- program constants ---------------- *)
maxDepth == 50
hierarchyLimit == 20
LimitMax == 100
DefaultLimit == 10
UiLimit == 10
MaxRetries == 2
NameMax == 100
DescMax == 500
NullId == 0

(* depts, employees, positions: the three relations.  last: the outcome   *)
(* of the latest call.  softDeleted: history, the ids whose softDelete has *)
(* once succeeded (only the tracked specification records it).  calls: the *)
(* requests in flight, each between its lookups and its write (only the    *)
(* interleaved specification runs them).  response: the value returned by  *)
(* the latest call, when it was a read.  ui: the state of the Departments *)
(* page in one browser (only the page's specification changes it).         *)
VARIABLES depts, employees, positions, last, softDeleted, calls, response, ui

vars == <<depts, employees, positions, last, softDeleted, calls, response, ui>>

(* ---------------- strings ---------------- *)
NameAlphabet == {" ", "a", "A"}
DescAlphabet == {" ", "d"}
NullStr == <<"null">>

SeqsUpTo(S, n) == UNION {[1..k -> S] : k \in 0..n}

RECURSIVE trimStart(_)
trimStart(s) ==
  IF s = <<>> THEN <<>>
  ELSE IF Head(s) = " " THEN trimStart(Tail(s)) ELSE s

RECURSIVE trimEnd(_)
trimEnd(s) ==
  IF s = <<>> THEN <<>>
  ELSE IF s[Len(s)] = " " THEN trimEnd(SubSeq(s, 1, Len(s) - 1)) ELSE s

trim(s) == trimEnd(trimStart(s))

toLower(s) == [i \in DOMAIN s |-> IF s[i] = "A" THEN "a" ELSE s[i]]

equalsInsensitive(a, b) == toLower(a) = toLower(b)

(* ---------------- roles ---------------- *)
Roles == {"ADMIN", "HR", "MANAGER", "EMPLOYEE"}
WriteRoles == {"ADMIN", "HR"}

(* variant: a MANAGER passes every role check *)
checkAuthorizationManagerPasses(userRole, requiredRoles) ==
  userRole \in requiredRoles \cup {"MANAGER"}

checkAuthorization(userRole, requiredRoles) == userRole \in requiredRoles

(* ---------------- the store as the queries see it ---------------- *)
DeptIds == 1..MaxDepts
EmployeeIds == 1..NumEmployees
PositionIds == 1..NumPositions

exists(d, id) == id \in DOMAIN d

activeEmployees(id) ==
  {e \in DOMAIN employees :
     employees[e].departmentId = id /\ employees[e].employmentStatus = "ACTIVE"}

activeChildren(d, id) ==
  {c \in DOMAIN d : d[c].parentId = id /\ d[c].isActive}

activePositions(id) ==
  {p \in DOMAIN positions :
     positions[p].departmentId = id /\ positions[p].isActive}

managerIsActive(m) ==
  m \in DOMAIN employees /\ employees[m].employmentStatus = "ACTIVE"

(* variant: the lookup has no isActive filter *)
parentIsActiveAnyStatus(d, p) == exists(d, p)

parentIsActive(d, p) == exists(d, p) /\ d[p].isActive

nameTaken(d, name, exceptId) ==
  \E i \in DOMAIN d : i # exceptId /\ equalsInsensitive(d[i].name, name)

(* ---------------- Hierarchy Validator ---------------- *)
(* failing: the ids whose findUnique inside the walk finds no record or    *)
(* throws (the catch block); a record that is not in the store is not      *)
(* found either.                                                           *)
lookupFails(d, id, failing) == id \in failing \/ ~exists(d, id)

(* variant: a failed lookup is reported as a cycle *)
RECURSIVE cycleWalkFailClosed(_, _, _, _, _)
cycleWalkFailClosed(d, currentParentId, visitedIds, depth, failing) ==
  IF currentParentId = NullId \/ depth >= maxDepth THEN FALSE
  ELSE IF currentParentId \in visitedIds THEN TRUE
  ELSE IF lookupFails(d, currentParentId, failing) THEN TRUE
  ELSE cycleWalkFailClosed(d, d[currentParentId].parentId,
                           visitedIds \cup {currentParentId}, depth + 1, failing)

RECURSIVE cycleWalk(_, _, _, _, _)
cycleWalk(d, currentParentId, visitedIds, depth, failing) ==
  IF currentParentId = NullId \/ depth >= maxDepth THEN FALSE
  ELSE IF currentParentId \in visitedIds THEN TRUE
  ELSE IF lookupFails(d, currentParentId, failing) THEN FALSE
  ELSE cycleWalk(d, d[currentParentId].parentId,
                 visitedIds \cup {currentParentId}, depth + 1, failing)

checkCircularReferenceUnder(d, departmentId, parentId, failing) ==
  IF departmentId = parentId THEN TRUE
  ELSE cycleWalk(d, parentId, {departmentId}, 0, failing)

(* every lookup answers *)
checkCircularReference(d, departmentId, parentId) ==
  checkCircularReferenceUnder(d, departmentId, parentId, {})

RECURSIVE routeCycleWalk(_, _, _)
routeCycleWalk(d, currentParentId, visitedIds) ==
  IF currentParentId = NullId THEN FALSE
  ELSE IF currentParentId \in visitedIds THEN TRUE
  ELSE IF ~exists(d, currentParentId) THEN FALSE
  ELSE routeCycleWalk(d, d[currentParentId].parentId,
                      visitedIds \cup {currentParentId})

routeCheckCircularReference(d, departmentId, parentId) ==
  IF departmentId = parentId THEN TRUE
  ELSE routeCycleWalk(d, parentId, {departmentId})

(* The two walks again, with the prisma.department.findUnique calls       *)
(* counted.  A walk is followed for at most MaxHops lookups: running is    *)
(* TRUE in the result when the loop has not returned after that many.      *)
WalkResult(value, lookups, running) ==
  [value |-> value, lookups |-> lookups, running |-> running]

RECURSIVE cycleWalkRun(_, _, _, _, _)
cycleWalkRun(d, currentParentId, visitedIds, depth, lookups) ==
  IF currentParentId = NullId \/ depth >= maxDepth
    THEN WalkResult(FALSE, lookups, FALSE)
  ELSE IF currentParentId \in visitedIds THEN WalkResult(TRUE, lookups, FALSE)
  ELSE IF lookups >= MaxHops THEN WalkResult(FALSE, lookups, TRUE)
  ELSE IF ~exists(d, currentParentId) THEN WalkResult(FALSE, lookups + 1, FALSE)
  ELSE cycleWalkRun(d, d[currentParentId].parentId,
                    visitedIds \cup {currentParentId}, depth + 1, lookups + 1)

checkCircularReferenceRun(d, departmentId, parentId) ==
  IF departmentId = parentId THEN WalkResult(TRUE, 0, FALSE)
  ELSE cycleWalkRun(d, parentId, {departmentId}, 0, 0)

(* variant: the walk records no visited id beside departmentId *)
RECURSIVE routeCycleWalkRunForgets(_, _, _, _)
routeCycleWalkRunForgets(d, currentParentId, visitedIds, lookups) ==
  IF currentParentId = NullId THEN WalkResult(FALSE, lookups, FALSE)
  ELSE IF currentParentId \in visitedIds THEN WalkResult(TRUE, lookups, FALSE)
  ELSE IF lookups >= MaxHops THEN WalkResult(FALSE, lookups, TRUE)
  ELSE IF ~exists(d, currentParentId) THEN WalkResult(FALSE, lookups + 1, FALSE)
  ELSE routeCycleWalkRunForgets(d, d[currentParentId].parentId,
                                visitedIds, lookups + 1)

RECURSIVE routeCycleWalkRun(_, _, _, _)
routeCycleWalkRun(d, currentParentId, visitedIds, lookups) ==
  IF currentParentId = NullId THEN WalkResult(FALSE, lookups, FALSE)
  ELSE IF currentParentId \in visitedIds THEN WalkResult(TRUE, lookups, FALSE)
  ELSE IF lookups >= MaxHops THEN WalkResult(FALSE, lookups, TRUE)
  ELSE IF ~exists(d, currentParentId) THEN WalkResult(FALSE, lookups + 1, FALSE)
  ELSE routeCycleWalkRun(d, d[currentParentId].parentId,
                         visitedIds \cup {currentParentId}, lookups + 1)

routeCheckCircularReferenceRun(d, departmentId, parentId) ==
  IF departmentId = parentId THEN WalkResult(TRUE, 0, FALSE)
  ELSE routeCycleWalkRun(d, parentId, {departmentId}, 0)

(* ---------------- request payloads ---------------- *)
FieldNames == {"name", "managerId", "parentId", "isActive", "description"}

RawNames == SeqsUpTo(NameAlphabet, MaxNameLen)
RawDescriptions == {NullStr} \cup (SeqsUpTo(DescAlphabet, 1) \ {<<>>})
ManagerValues == {NullId} \cup EmployeeIds
ParentValues == {NullId} \cup DeptIds

(* A payload: has is the set of keys present in the JSON body; a key that  *)
(* is absent reads as undefined and carries a fixed filler value here.     *)
PayloadsWith(has) ==
  {[has |-> has, name |-> n, managerId |-> m, parentId |-> p, isActive |-> a,
    description |-> dsc] :
     n \in (IF "name" \in has THEN RawNames ELSE {<<>>}),
     m \in (IF "managerId" \in has THEN ManagerValues ELSE {NullId}),
     p \in (IF "parentId" \in has THEN ParentValues ELSE {NullId}),
     a \in (IF "isActive" \in has THEN BOOLEAN ELSE {TRUE}),
     dsc \in (IF "description" \in has THEN RawDescriptions ELSE {NullStr})}

UpdatePayloads ==
  UNION {PayloadsWith(has) :
           has \in {h \in SUBSET FieldNames : Cardinality(h) <= MaxFields}}

CreatePayloads ==
  UNION {PayloadsWith(has \cup {"name"}) :
           has \in {h \in SUBSET FieldNames : Cardinality(h) <= MaxFields}}

EmptyPayload ==
  [has |-> {}, name |-> <<>>, managerId |-> NullId, parentId |-> NullId,
   isActive |-> TRUE, description |-> NullStr]

ParentOnly(p) == [EmptyPayload EXCEPT !.has = {"parentId"}, !.parentId = p]

NameOnly(n) == [EmptyPayload EXCEPT !.has = {"name"}, !.name = n]

ParentCreatePayloads ==
  {[EmptyPayload EXCEPT !.has = {"name", "parentId"}, !.name = n, !.parentId = p] :
     n \in RawNames, p \in DeptIds}

(* ---------------- validation schemas ---------------- *)
nameValid(n) == Len(n) >= 1 /\ Len(n) <= NameMax

descriptionValid(v) == v = NullStr \/ Len(v) <= DescMax

descriptionTransform(v) ==
  IF v = NullStr THEN NullStr
  ELSE IF trim(v) = <<>> THEN NullStr ELSE trim(v)

(* variant: isActive is not read from the body *)
departmentSchemaAlwaysActive(data) ==
  [ok |-> /\ "name" \in data.has
          /\ nameValid(data.name)
          /\ ("description" \in data.has => descriptionValid(data.description)),
   has |-> FieldNames,
   name |-> trim(data.name),
   managerId |-> data.managerId,
   parentId |-> data.parentId,
   isActive |-> TRUE,
   description |-> IF "description" \in data.has
                   THEN descriptionTransform(data.description) ELSE NullStr]

departmentSchema(data) ==
  [ok |-> /\ "name" \in data.has
          /\ nameValid(data.name)
          /\ ("description" \in data.has => descriptionValid(data.description)),
   has |-> FieldNames,
   name |-> trim(data.name),
   managerId |-> data.managerId,
   parentId |-> data.parentId,
   isActive |-> IF "isActive" \in data.has THEN data.isActive ELSE TRUE,
   description |-> IF "description" \in data.has
                   THEN descriptionTransform(data.description) ELSE NullStr]

(* variant: the create schema's default(true) survives partial() *)
updateDepartmentSchemaDefaultActive(data) ==
  [ok |-> /\ ("name" \in data.has => nameValid(data.name))
          /\ ("description" \in data.has => descriptionValid(data.description)),
   has |-> data.has \cup {"isActive"},
   name |-> trim(data.name),
   managerId |-> data.managerId,
   parentId |-> data.parentId,
   isActive |-> IF "isActive" \in data.has THEN data.isActive ELSE TRUE,
   description |-> IF "description" \in data.has
                   THEN descriptionTransform(data.description) ELSE NullStr]

updateDepartmentSchema(data) ==
  [ok |-> /\ ("name" \in data.has => nameValid(data.name))
          /\ ("description" \in data.has => descriptionValid(data.description)),
   has |-> data.has,
   name |-> trim(data.name),
   managerId |-> data.managerId,
   parentId |-> data.parentId,
   isActive |-> data.isActive,
   description |-> IF "description" \in data.has
                   THEN descriptionTransform(data.description) ELSE NullStr]

(* ---------------- outcomes ---------------- *)
Outcome(op, id, error, message, count) ==
  [op |-> op, id |-> id, error |-> error, message |-> message, count |-> count]

Success(op, id) == Outcome(op, id, "none", "", 0)

(* ---------------- requests in flight, responses ---------------- *)
Calls == 1..MaxCalls

IdleCall ==
  [pc |-> "idle", op |-> "none", id |-> NullId,
   v |-> updateDepartmentSchema(EmptyPayload), error |-> "none"]

NoResponse ==
  [department |-> NullId, hierarchyPath |-> <<>>, children |-> {},
   employees |-> {}, positions |-> {}, departments |-> <<>>,
   pagination |-> [page |-> 0, limit |-> 0, total |-> 0, pages |-> 0,
                   hasNext |-> FALSE, hasPrev |-> FALSE]]

(* ---------------- the Departments page: state ---------------- *)
(* page, search: useState(1) and the debounced search term.  data: the     *)
(* body the list query last resolved with (kept while another key is       *)
(* fetched: keepPreviousData).  fetching: a fetch of the current key is    *)
(* under way.  failureCount: the failures of this fetch so far, as the     *)
(* query passes it to retry.  attempts: history, the calls of the query    *)
(* function made by this fetch.  error: the error the query has surfaced.  *)
NoData == [page |-> 0, search |-> <<>>, rows |-> 0, pagination |-> NoResponse.pagination]

NoError == [response |-> 0, status |-> 0]

InitialUi ==
  [page |-> 1, search |-> <<>>, data |-> NoData, fetching |-> TRUE,
   failureCount |-> 0, attempts |-> 0, error |-> NoError]

(* ---------------- createDepartment ---------------- *)
createError(data, userRole) ==
  LET v == departmentSchema(data) IN
  IF ~checkAuthorization(userRole, WriteRoles)
    THEN <<"UnauthorizedError", "Insufficient permissions">>
  ELSE IF ~v.ok THEN <<"ZodError", "invalid input">>
  ELSE IF nameTaken(depts, v.name, NullId)
    THEN <<"ValidationError", "Department name already exists">>
  ELSE IF v.managerId # NullId /\ ~managerIsActive(v.managerId)
    THEN <<"ValidationError", "Manager not found or not active">>
  ELSE IF v.parentId # NullId /\ ~parentIsActive(depts, v.parentId)
    THEN <<"ValidationError", "Parent department not found or not active">>
  ELSE <<"none", "">>

createDepartment(data, userRole) ==
  LET v == departmentSchema(data)
      e == createError(data, userRole)
      newId == Len(depts) + 1
  IN /\ Len(depts) < MaxDepts
     /\ IF e[1] = "none"
        THEN /\ depts' = Append(depts,
                  [name |-> v.name, managerId |-> v.managerId,
                   parentId |-> v.parentId, description |-> v.description,
                   isActive |-> v.isActive])
             /\ last' = Success("create", newId)
        ELSE /\ depts' = depts
             /\ last' = Outcome("create", NullId, e[1], e[2], 0)
     /\ UNCHANGED <<employees, positions>>

(* ---------------- updateDepartment ---------------- *)
updateErrorUnder(id, data, userRole, failing) ==
  LET v == updateDepartmentSchema(data) IN
  IF id = NullId THEN <<"ValidationError", "Department ID is required">>
  ELSE IF ~checkAuthorization(userRole, WriteRoles)
    THEN <<"UnauthorizedError", "Insufficient permissions">>
  ELSE IF ~v.ok THEN <<"ZodError", "invalid input">>
  ELSE IF ~exists(depts, id)
    THEN <<"NotFoundError", "Department not found">>
  ELSE IF /\ "name" \in v.has
          /\ v.name # <<>>
          /\ v.name # depts[id].name
          /\ nameTaken(depts, v.name, id)
    THEN <<"ValidationError", "Department name already exists">>
  ELSE IF /\ "managerId" \in v.has
          /\ v.managerId # NullId
          /\ ~managerIsActive(v.managerId)
    THEN <<"ValidationError", "Manager not found or not active">>
  ELSE IF /\ "parentId" \in v.has
          /\ v.parentId # NullId
          /\ ~parentIsActive(depts, v.parentId)
    THEN <<"ValidationError", "Parent department not found or not active">>
  ELSE IF /\ "parentId" \in v.has
          /\ v.parentId # NullId
          /\ checkCircularReferenceUnder(depts, id, v.parentId, failing)
    THEN <<"ValidationError", "Cannot create circular parent-child relationship">>
  ELSE <<"none", "">>

(* every lookup of the cycle walk answers *)
updateError(id, data, userRole) == updateErrorUnder(id, data, userRole, {})

(* variant: an omitted managerId is written as null *)
updateDataNullsManager(old, v) ==
  [name |-> IF "name" \in v.has THEN v.name ELSE old.name,
   managerId |-> IF "managerId" \in v.has THEN v.managerId ELSE NullId,
   parentId |-> IF "parentId" \in v.has THEN v.parentId ELSE old.parentId,
   isActive |-> IF "isActive" \in v.has THEN v.isActive ELSE old.isActive,
   description |-> IF "description" \in v.has THEN v.description
                   ELSE old.description]

updateData(old, v) ==
  [name |-> IF "name" \in v.has THEN v.name ELSE old.name,
   managerId |-> IF "managerId" \in v.has THEN v.managerId ELSE old.managerId,
   parentId |-> IF "parentId" \in v.has THEN v.parentId ELSE old.parentId,
   isActive |-> IF "isActive" \in v.has THEN v.isActive ELSE old.isActive,
   description |-> IF "description" \in v.has THEN v.description
                   ELSE old.description]

(* variant: the record is written before the cycle check runs *)
updateDepartmentWritesFirst(id, data, userRole, failing) ==
  LET v == updateDepartmentSchema(data)
      e == updateErrorUnder(id, data, userRole, failing)
  IN /\ IF e[1] = "none"
        THEN /\ depts' = [depts EXCEPT ![id] = updateData(depts[id], v)]
             /\ last' = Success("update", id)
        ELSE /\ depts' =
                  IF e[2] = "Cannot create circular parent-child relationship"
                  THEN [depts EXCEPT ![id] = updateData(depts[id], v)]
                  ELSE depts
             /\ last' = Outcome("update", id, e[1], e[2], 0)
     /\ UNCHANGED <<employees, positions>>

updateDepartmentUnder(id, data, userRole, failing) ==
  LET v == updateDepartmentSchema(data)
      e == updateErrorUnder(id, data, userRole, failing)
  IN /\ IF e[1] = "none"
        THEN /\ depts' = [depts EXCEPT ![id] = updateData(depts[id], v)]
             /\ last' = Success("update", id)
        ELSE /\ depts' = depts
             /\ last' = Outcome("update", id, e[1], e[2], 0)
     /\ UNCHANGED <<employees, positions>>

(* every lookup of the cycle walk answers *)
updateDepartment(id, data, userRole) ==
  updateDepartmentUnder(id, data, userRole, {})

(* ---------------- deleteDepartment (soft delete) ---------------- *)
(* variant: the position guard runs before the child-department guard *)
deleteErrorPositionsFirst(id, userRole) ==
  IF id = NullId THEN <<"ValidationError", "Department ID is required", 0>>
  ELSE IF ~checkAuthorization(userRole, WriteRoles)
    THEN <<"UnauthorizedError", "Insufficient permissions", 0>>
  ELSE IF ~exists(depts, id)
    THEN <<"NotFoundError", "Department not found", 0>>
  ELSE IF ~depts[id].isActive
    THEN <<"ValidationError", "Department is already inactive", 0>>
  ELSE IF Cardinality(activeEmployees(id)) > 0
    THEN <<"ValidationError", "Cannot delete department with active employee(s)",
           Cardinality(activeEmployees(id))>>
  ELSE IF Cardinality(activePositions(id)) > 0
    THEN <<"ValidationError", "Cannot delete department with active position(s)",
           Cardinality(activePositions(id))>>
  ELSE IF Cardinality(activeChildren(depts, id)) > 0
    THEN <<"ValidationError",
           "Cannot delete department with active child department(s)",
           Cardinality(activeChildren(depts, id))>>
  ELSE <<"none", "", 0>>

(* variant: no already-inactive guard *)
deleteErrorNoInactiveGuard(id, userRole) ==
  IF id = NullId THEN <<"ValidationError", "Department ID is required", 0>>
  ELSE IF ~checkAuthorization(userRole, WriteRoles)
    THEN <<"UnauthorizedError", "Insufficient permissions", 0>>
  ELSE IF ~exists(depts, id)
    THEN <<"NotFoundError", "Department not found", 0>>
  ELSE IF Cardinality(activeEmployees(id)) > 0
    THEN <<"ValidationError", "Cannot delete department with active employee(s)",
           Cardinality(activeEmployees(id))>>
  ELSE IF Cardinality(activeChildren(depts, id)) > 0
    THEN <<"ValidationError",
           "Cannot delete department with active child department(s)",
           Cardinality(activeChildren(depts, id))>>
  ELSE IF Cardinality(activePositions(id)) > 0
    THEN <<"ValidationError", "Cannot delete department with active position(s)",
           Cardinality(activePositions(id))>>
  ELSE <<"none", "", 0>>

deleteError(id, userRole) ==
  IF id = NullId THEN <<"ValidationError", "Department ID is required", 0>>
  ELSE IF ~checkAuthorization(userRole, WriteRoles)
    THEN <<"UnauthorizedError", "Insufficient permissions", 0>>
  ELSE IF ~exists(depts, id)
    THEN <<"NotFoundError", "Department not found", 0>>
  ELSE IF ~depts[id].isActive
    THEN <<"ValidationError", "Department is already inactive", 0>>
  ELSE IF Cardinality(activeEmployees(id)) > 0
    THEN <<"ValidationError", "Cannot delete department with active employee(s)",
           Cardinality(activeEmployees(id))>>
  ELSE IF Cardinality(activeChildren(depts, id)) > 0
    THEN <<"ValidationError",
           "Cannot delete department with active child department(s)",
           Cardinality(activeChildren(depts, id))>>
  ELSE IF Cardinality(activePositions(id)) > 0
    THEN <<"ValidationError", "Cannot delete department with active position(s)",
           Cardinality(activePositions(id))>>
  ELSE <<"none", "", 0>>

(* variant: the write deactivates but keeps the manager *)
deleteDepartmentKeepsManager(id, userRole) ==
  LET e == deleteError(id, userRole)
  IN /\ IF e[1] = "none"
        THEN /\ depts' = [depts EXCEPT ![id].isActive = FALSE]
             /\ last' = Success("delete", id)
        ELSE /\ depts' = depts
             /\ last' = Outcome("delete", id, e[1], e[2], e[3])
     /\ UNCHANGED <<employees, positions>>

(* variant: the record is removed from the store *)
deleteDepartmentRemoves(id, userRole) ==
  LET e == deleteError(id, userRole)
  IN /\ IF e[1] = "none"
        THEN /\ depts' = [i \in 1..(Len(depts) - 1) |->
                            IF i < id THEN depts[i] ELSE depts[i + 1]]
             /\ last' = Success("delete", id)
        ELSE /\ depts' = depts
             /\ last' = Outcome("delete", id, e[1], e[2], e[3])
     /\ UNCHANGED <<employees, positions>>

deleteDepartment(id, userRole) ==
  LET e == deleteError(id, userRole)
  IN /\ IF e[1] = "none"
        THEN /\ depts' = [depts EXCEPT ![id].isActive = FALSE,
                                       ![id].managerId = NullId]
             /\ last' = Success("delete", id)
        ELSE /\ depts' = depts
             /\ last' = Outcome("delete", id, e[1], e[2], e[3])
     /\ UNCHANGED <<employees, positions>>

(* ---------------- getDepartmentHierarchy ---------------- *)
ReadRoles == {"ADMIN", "HR", "MANAGER"}

PathEntry(d, id) == [id |-> id, name |-> d[id].name]

(* the parent relation include: the parent record, when one is referenced *)
hasParent(d, id) == d[id].parentId # NullId /\ exists(d, d[id].parentId)

(* the while loop: current is NullId once the walk has run past the root *)
RECURSIVE hierarchyWalk(_, _, _)
hierarchyWalk(d, current, hierarchyPath) ==
  IF current = NullId \/ Len(hierarchyPath) >= hierarchyLimit
    THEN hierarchyPath
  ELSE hierarchyWalk(d,
         IF hasParent(d, current) THEN d[current].parentId ELSE NullId,
         <<PathEntry(d, current)>> \o hierarchyPath)

(* one level of active children, each with its active children *)
childrenTwoLevels(d, id) ==
  {[id |-> c, name |-> d[c].name, children |-> activeChildren(d, c)] :
     c \in activeChildren(d, id)}

hierarchyError(id, userRole) ==
  IF id = NullId THEN <<"ValidationError", "Department ID is required">>
  ELSE IF ~checkAuthorization(userRole, ReadRoles)
    THEN <<"UnauthorizedError", "Insufficient permissions">>
  ELSE IF ~exists(depts, id)
    THEN <<"NotFoundError", "Department not found">>
  ELSE <<"none", "">>

getDepartmentHierarchy(id, userRole) ==
  LET e == hierarchyError(id, userRole)
  IN /\ IF e[1] = "none"
        THEN /\ response' = [NoResponse EXCEPT
                  !.department = id,
                  !.hierarchyPath = hierarchyWalk(depts, id, <<>>),
                  !.children = childrenTwoLevels(depts, id)]
             /\ last' = Success("hierarchy", id)
        ELSE /\ response' = NoResponse
             /\ last' = Outcome("hierarchy", id, e[1], e[2], 0)
     /\ UNCHANGED <<depts, employees, positions>>

(* ---------------- orderBy ---------------- *)
(* The database orders names by its collation, taken here as the order of  *)
(* the character codes; records with equal keys come in id order.         *)
charRank(c) == CASE c = " " -> 0 [] c = "A" -> 1 [] c = "a" -> 2 [] OTHER -> 3

RECURSIVE strLess(_, _)
strLess(a, b) ==
  IF b = <<>> THEN FALSE
  ELSE IF a = <<>> THEN TRUE
  ELSE IF Head(a) = Head(b) THEN strLess(Tail(a), Tail(b))
  ELSE charRank(Head(a)) < charRank(Head(b))

(* createdAt grows with the id: records are created one after the other *)
keyLess(d, i, j, sortBy) ==
  IF sortBy = "name"
  THEN strLess(d[i].name, d[j].name) \/ (d[i].name = d[j].name /\ i < j)
  ELSE i < j

before(d, i, j, sortBy, sortOrder) ==
  IF sortOrder = "asc" THEN keyLess(d, i, j, sortBy) ELSE keyLess(d, j, i, sortBy)

ordered(d, S, sortBy, sortOrder) ==
  CHOOSE s \in [1..Cardinality(S) -> S] :
    \A i, j \in 1..Cardinality(S) :
      i < j => s[i] # s[j] /\ before(d, s[i], s[j], sortBy, sortOrder)

(* ---------------- getDepartments ---------------- *)
NoSearch == <<"undefined">>

contains(text, search) ==
  \E i \in 1..(Len(text) - Len(search) + 1) :
    toLower(SubSeq(text, i, i + Len(search) - 1)) = toLower(search)

getDepartmentsSchema(params) ==
  /\ params.page >= 1
  /\ params.limit >= 1
  /\ params.limit <= LimitMax
  /\ (params.search # NoSearch => Len(params.search) >= 1)

where(d, params) ==
  {i \in DOMAIN d :
     /\ (params.isActive = "true" => d[i].isActive)
     /\ (params.isActive = "false" => ~d[i].isActive)
     /\ (params.parentId # NullId => d[i].parentId = params.parentId)
     /\ (params.search # NoSearch =>
           \/ contains(d[i].name, params.search)
           \/ (d[i].description # NullStr
                 /\ contains(d[i].description, params.search)))}

(* variant: the quotient is rounded down *)
ceilRoundsDown(total, limit) == total \div limit

ceil(total, limit) == (total + limit - 1) \div limit

getDepartmentsError(params) ==
  IF ~getDepartmentsSchema(params) THEN <<"ZodError", "invalid input">>
  ELSE IF ~checkAuthorization(params.userRole, ReadRoles)
    THEN <<"UnauthorizedError", "Insufficient permissions">>
  ELSE <<"none", "">>

getDepartments(params) ==
  LET e == getDepartmentsError(params)
      skip == (params.page - 1) * params.limit
      found == where(depts, params)
      all == ordered(depts, found, params.sortBy, params.sortOrder)
      total == Cardinality(found)
  IN /\ IF e[1] = "none"
        THEN /\ response' = [NoResponse EXCEPT
                  !.departments =
                     SubSeq(all, skip + 1,
                            IF skip + params.limit < total
                            THEN skip + params.limit ELSE total),
                  !.pagination =
                     [page |-> params.page, limit |-> params.limit,
                      total |-> total,
                      pages |-> ceil(total, params.limit),
                      hasNext |-> params.page < ceil(total, params.limit),
                      hasPrev |-> params.page > 1]]
             /\ last' = Success("list", NullId)
        ELSE /\ response' = NoResponse
             /\ last' = Outcome("list", NullId, e[1], e[2], 0)
     /\ UNCHANGED <<depts, employees, positions>>

(* ---------------- getDepartmentById ---------------- *)
(* the id, the role and the record are checked as in                       *)
(* getDepartmentHierarchy                                                  *)
getDepartmentById(id, userRole) ==
  LET e == hierarchyError(id, userRole)
  IN /\ IF e[1] = "none"
        THEN /\ response' = [NoResponse EXCEPT
                  !.department = id,
                  !.children =
                     {[id |-> c, name |-> depts[c].name,
                       isActive |-> depts[c].isActive] :
                        c \in activeChildren(depts, id)},
                  !.employees = activeEmployees(id),
                  !.positions =
                     {[id |-> p, isActive |-> positions[p].isActive] :
                        p \in {q \in DOMAIN positions :
                                 positions[q].departmentId = id}}]
             /\ last' = Success("getById", id)
        ELSE /\ response' = NoResponse
             /\ last' = Outcome("getById", id, e[1], e[2], 0)
     /\ UNCHANGED <<depts, employees, positions>>

(* ---------------- getActiveDepartments ---------------- *)
getActiveDepartments(userRole) ==
  /\ IF checkAuthorization(userRole, ReadRoles)
     THEN /\ response' = [NoResponse EXCEPT
               !.departments =
                  ordered(depts, {i \in DOMAIN depts : depts[i].isActive},
                          "name", "asc")]
          /\ last' = Success("listActive", NullId)
     ELSE /\ response' = NoResponse
          /\ last' = Outcome("listActive", NullId, "UnauthorizedError",
                             "Insufficient permissions", 0)
  /\ UNCHANGED <<depts, employees, positions>>

(* ---------------- router.get('/:id/hierarchy') ---------------- *)
(* The route's copy of the walk, `while (current)`, has no limit on the    *)
(* path.  It is followed for at most MaxHops lookups: current is not       *)
(* NullId in the result when the loop is still running after that many.    *)
RECURSIVE routeHierarchyWalk(_, _, _)
routeHierarchyWalk(d, current, hierarchyPath) ==
  IF current = NullId \/ Len(hierarchyPath) >= MaxHops
    THEN [current |-> current, hierarchyPath |-> hierarchyPath]
  ELSE routeHierarchyWalk(d,
         IF hasParent(d, current) THEN d[current].parentId ELSE NullId,
         <<PathEntry(d, current)>> \o hierarchyPath)

(* authorize('ADMIN', 'HR', 'MANAGER') runs before the handler *)
routeHierarchy(id, userRole) ==
  LET w == routeHierarchyWalk(depts, id, <<>>)
  IN /\ IF ~checkAuthorization(userRole, ReadRoles)
        THEN /\ response' = NoResponse
             /\ last' = Outcome("routeHierarchy", id, "UnauthorizedError",
                                "Insufficient permissions", 0)
        ELSE IF ~exists(depts, id)
        THEN /\ response' = NoResponse
             /\ last' = Outcome("routeHierarchy", id, "AppError",
                                "Department not found", 0)
        ELSE IF w.current # NullId
        THEN /\ response' = [NoResponse EXCEPT
                  !.department = id, !.hierarchyPath = w.hierarchyPath]
             /\ last' = Outcome("routeHierarchy", id, "running", "", 0)
        ELSE /\ response' = [NoResponse EXCEPT
                  !.department = id,
                  !.hierarchyPath = w.hierarchyPath,
                  !.children = childrenTwoLevels(depts, id)]
             /\ last' = Success("routeHierarchy", id)
     /\ UNCHANGED <<depts, employees, positions>>

(* ---------------- router.get('/') as the page calls it ---------------- *)
(* the page sends page, limit, sortBy, sortOrder and, when it is not       *)
(* blank, the trimmed search term; rows is the number of departments in    *)
(* the body (skip, take)                                                   *)
routeWhere(d, search) ==
  {i \in DOMAIN d :
     trim(search) # <<>> =>
       \/ contains(d[i].name, trim(search))
       \/ (d[i].description # NullStr /\ contains(d[i].description, trim(search)))}

routeListBody(d, page, limit, search) ==
  LET skip == (page - 1) * limit
      total == Cardinality(routeWhere(d, search))
  IN [page |-> page, search |-> search,
      rows |-> IF total - skip <= 0 THEN 0
               ELSE IF total - skip < limit THEN total - skip ELSE limit,
      pagination |->
        [page |-> page, limit |-> limit, total |-> total,
         pages |-> ceil(total, limit),
         hasNext |-> page < ceil(total, limit),
         hasPrev |-> page > 1]]

(* ---------------- router.delete('/:id') ---------------- *)
(* authorize('ADMIN', 'HR') and validate run before the handler *)
routeDeleteError(id, userRole) ==
  IF ~checkAuthorization(userRole, WriteRoles)
    THEN <<"UnauthorizedError", "Insufficient permissions", 0>>
  ELSE IF ~exists(depts, id)
    THEN <<"AppError", "Department not found", 0>>
  ELSE IF ~depts[id].isActive
    THEN <<"ValidationError", "Department is already inactive", 0>>
  ELSE IF Cardinality(activeEmployees(id)) > 0
    THEN <<"ValidationError", "Cannot delete department with active employee(s)",
           Cardinality(activeEmployees(id))>>
  ELSE IF Cardinality(activeChildren(depts, id)) > 0
    THEN <<"ValidationError",
           "Cannot delete department with active child department(s)",
           Cardinality(activeChildren(depts, id))>>
  ELSE IF Cardinality(activePositions(id)) > 0
    THEN <<"ValidationError", "Cannot delete department with active position(s)",
           Cardinality(activePositions(id))>>
  ELSE <<"none", "", 0>>

routeDelete(id, userRole) ==
  LET e == routeDeleteError(id, userRole)
  IN /\ IF e[1] = "none"
        THEN /\ depts' = [depts EXCEPT ![id].isActive = FALSE,
                                       ![id].managerId = NullId]
             /\ last' = Success("routeDelete", id)
        ELSE /\ depts' = depts
             /\ last' = Outcome("routeDelete", id, e[1], e[2], e[3])
     /\ UNCHANGED <<employees, positions>>

(* ---------------- the Departments page ---------------- *)
(* error?.response?.status || error?.status || 0: 0 stands for undefined *)
statusOf(error) ==
  IF error.response # 0 THEN error.response
  ELSE IF error.status # 0 THEN error.status ELSE 0

(* variant: one more retry is allowed *)
retryOnceMore(failureCount, error) ==
  IF statusOf(error) >= 400 /\ statusOf(error) < 500 THEN FALSE
  ELSE IF failureCount >= MaxRetries + 1 THEN FALSE
  ELSE TRUE

retry(failureCount, error) ==
  IF statusOf(error) >= 400 /\ statusOf(error) < 500 THEN FALSE
  ELSE IF failureCount >= MaxRetries THEN FALSE
  ELSE TRUE

(* status 'loading': the query has no data and is fetching *)
isLoading(u) == u.data = NoData /\ u.fetching

dataIsCurrent(u) ==
  u.data # NoData /\ u.data.page = u.page /\ u.data.search = u.search

(* the key ['departments', page, debouncedSearch] has changed: the query   *)
(* of the new key fetches                                                  *)
startFetch(u) ==
  [u EXCEPT !.fetching = TRUE, !.failureCount = 0, !.attempts = 0,
            !.error = NoError]

(* refetch(), invalidateQueries: a fetch under way is not started again *)
refetch(u) == IF u.fetching THEN u ELSE startFetch(u)

(* the useEffect on debouncedSearch sets the page to 1 *)
searchChanged(q) ==
  /\ q # ui.search
  /\ ui' = startFetch([ui EXCEPT !.search = q, !.page = 1])
  /\ UNCHANGED <<depts, employees, positions, last>>

paginationShown(u) == u.data # NoData /\ u.data.pagination.pages > 1

previousClicked ==
  LET newPage == IF ui.page - 1 > 1 THEN ui.page - 1 ELSE 1
  IN /\ paginationShown(ui)
     /\ ui.data.pagination.hasPrev
     /\ ~isLoading(ui)
     /\ newPage # ui.page
     /\ ui' = startFetch([ui EXCEPT !.page = newPage])
     /\ UNCHANGED <<depts, employees, positions, last>>

nextClicked ==
  LET newPage == IF ui.data.pagination.pages < ui.page + 1
                 THEN ui.data.pagination.pages ELSE ui.page + 1
  IN /\ paginationShown(ui)
     /\ ui.data.pagination.hasNext
     /\ ~isLoading(ui)
     /\ newPage # ui.page
     /\ ui' = startFetch([ui EXCEPT !.page = newPage])
     /\ UNCHANGED <<depts, employees, positions, last>>

(* the Try Again button of the error screen *)
handleRetry ==
  /\ ui.error # NoError
  /\ ui.data = NoData
  /\ ~isLoading(ui)
  /\ ui' = refetch(ui)
  /\ UNCHANGED <<depts, employees, positions, last>>

(* deleteMutation: the rows are shown, the caller has a write role; on     *)
(* success the list queries are invalidated                                *)
handleDelete(id) ==
  /\ ui.data # NoData
  /\ ui.data.rows > 0
  /\ routeDelete(id, "ADMIN")
  /\ ui' = IF last'.error = "none" THEN refetch(ui) ELSE ui

(* the query function has resolved with the body of GET / *)
fetchSucceeds ==
  /\ ui.fetching
  /\ ui' = [ui EXCEPT
        !.data = routeListBody(depts, ui.page, UiLimit, ui.search),
        !.fetching = FALSE, !.failureCount = 0,
        !.attempts = @ + 1, !.error = NoError]
  /\ last' = Success("routeList", NullId)
  /\ UNCHANGED <<depts, employees, positions>>

(* the query function has thrown: the query asks retry with the number of  *)
(* failures before this one, and gives up with the error when it says no;  *)
(* the data of another key is not kept beside an error                     *)
fetchFails(error) ==
  /\ ui.fetching
  /\ ui' = IF retry(ui.failureCount, error)
           THEN [ui EXCEPT !.failureCount = @ + 1, !.attempts = @ + 1]
           ELSE [ui EXCEPT !.fetching = FALSE, !.attempts = @ + 1,
                           !.error = error,
                           !.data = IF dataIsCurrent(ui) THEN @ ELSE NoData]
  /\ last' = Outcome("routeList", NullId, "failed", "", statusOf(error))
  /\ UNCHANGED <<depts, employees, positions>>

(* ---------------- the relations owned by other modules ---------------- *)
(* Employees and positions are written by other services: an employee is   *)
(* assigned to a department or leaves, a position is opened in a           *)
(* department or closed; both keep their department afterwards.            *)
assignEmployee(e, departmentId) ==
  /\ employees' = [employees EXCEPT
        ![e] = [departmentId |-> departmentId, employmentStatus |-> "ACTIVE"]]
  /\ last' = Outcome("external", NullId, "none", "", 0)
  /\ UNCHANGED <<depts, positions>>

terminateEmployee(e) ==
  /\ employees[e].employmentStatus = "ACTIVE"
  /\ employees' = [employees EXCEPT ![e].employmentStatus = "INACTIVE"]
  /\ last' = Outcome("external", NullId, "none", "", 0)
  /\ UNCHANGED <<depts, positions>>

openPosition(p, departmentId) ==
  /\ positions' = [positions EXCEPT
        ![p] = [departmentId |-> departmentId, isActive |-> TRUE]]
  /\ last' = Outcome("external", NullId, "none", "", 0)
  /\ UNCHANGED <<depts, employees>>

closePosition(p) ==
  /\ positions[p].isActive
  /\ positions' = [positions EXCEPT ![p].isActive = FALSE]
  /\ last' = Outcome("external", NullId, "none", "", 0)
  /\ UNCHANGED <<depts, employees>>

(* ---------------- specification ---------------- *)
(* a call that is not a read has returned: the body of the latest read is  *)
(* gone, the history and the requests in flight are as they were           *)
Returned == response' = NoResponse /\ UNCHANGED <<softDeleted, calls, ui>>

Init ==
  /\ depts = <<>>
  /\ employees = [e \in EmployeeIds |->
        [departmentId |-> NullId, employmentStatus |-> "ACTIVE"]]
  /\ positions = [p \in PositionIds |->
        [departmentId |-> NullId, isActive |-> FALSE]]
  /\ last = Outcome("init", NullId, "none", "", 0)
  /\ softDeleted = {}
  /\ calls = [c \in Calls |-> IdleCall]
  /\ response = NoResponse
  /\ ui = InitialUi

(* The role is checked before the body is read: a caller without a write   *)
(* role is tried with one body only.                                       *)
Create ==
  \E userRole \in Roles :
    \E data \in IF userRole \in WriteRoles THEN CreatePayloads ELSE {EmptyPayload} :
      createDepartment(data, userRole) /\ Returned

Update ==
  \E userRole \in Roles : \E id \in DeptIds \cup {NullId} :
    \E data \in IF userRole \in WriteRoles /\ id # NullId
                THEN UpdatePayloads ELSE {EmptyPayload} :
      updateDepartment(id, data, userRole) /\ Returned

Delete ==
  \E userRole \in Roles : \E id \in DeptIds \cup {NullId} :
    deleteDepartment(id, userRole) /\ Returned

EmployeeChange ==
  \E e \in EmployeeIds :
    \/ \E d \in DOMAIN depts \cup {NullId} :
         assignEmployee(e, d) /\ UNCHANGED <<softDeleted, calls, response, ui>>
    \/ terminateEmployee(e) /\ UNCHANGED <<softDeleted, calls, response, ui>>

PositionChange ==
  \E p \in PositionIds :
    \/ \E d \in DOMAIN depts : openPosition(p, d) /\ UNCHANGED <<softDeleted, calls, response, ui>>
    \/ closePosition(p) /\ UNCHANGED <<softDeleted, calls, response, ui>>

(* The three mutating calls of the service, run one at a time. *)
Next == Create \/ Update \/ Delete

Spec == Init /\ [][Next]_vars

(* ---------------- the calls beside changing dependents ---------------- *)
(* Employees and positions come and go while departments are created,      *)
(* re-parented, (de)activated and soft-deleted; the bodies carry only the  *)
(* fields the dependency guard reads.                                      *)
LifecycleFields == {"name", "parentId", "isActive"}

CreateLifecycle ==
  \E userRole \in Roles :
    \E data \in IF userRole \in WriteRoles
                THEN {x \in CreatePayloads : x.has \subseteq LifecycleFields}
                ELSE {EmptyPayload} :
      createDepartment(data, userRole) /\ Returned

UpdateLifecycle ==
  \E userRole \in Roles : \E id \in DeptIds \cup {NullId} :
    \E data \in IF userRole \in WriteRoles /\ id # NullId
                THEN {x \in UpdatePayloads :
                        x.has \subseteq LifecycleFields \ {"name"}}
                ELSE {EmptyPayload} :
      updateDepartment(id, data, userRole) /\ Returned

NextDependents ==
  CreateLifecycle \/ UpdateLifecycle \/ Delete \/ EmployeeChange \/ PositionChange

SpecDependents == Init /\ [][NextDependents]_vars

(* ---------------- the same calls with the softDelete history ---------- *)
DeleteTracked ==
  \E userRole \in Roles : \E id \in DeptIds \cup {NullId} :
    /\ deleteDepartment(id, userRole)
    /\ softDeleted' = IF last'.error = "none" THEN softDeleted \cup {id}
                      ELSE softDeleted
    /\ response' = NoResponse
    /\ UNCHANGED <<calls, ui>>

NextTracked == Create \/ Update \/ DeleteTracked

SpecTracked == Init /\ [][NextTracked]_vars

(* ---------------- interleaved requests ---------------- *)
(* Every prisma call is awaited, so another request may run between the    *)
(* lookups of a handler and its write.  A request c runs its lookups       *)
(* (Begin) and, when they pass, its write (Commit) in a later step.        *)
Call(pc, op, id, v, error) ==
  [pc |-> pc, op |-> op, id |-> id, v |-> v, error |-> error]

pendingCreates ==
  Cardinality({k \in Calls : calls[k].pc = "checked" /\ calls[k].op = "create"})

createBegin(c, data, userRole) ==
  LET v == departmentSchema(data)
      e == createError(data, userRole)
  IN /\ calls[c].pc # "checked"
     /\ Len(depts) + pendingCreates < MaxDepts
     /\ IF e[1] = "none"
        THEN /\ calls' = [calls EXCEPT ![c] = Call("checked", "create", NullId, v, "none")]
             /\ last' = last
        ELSE /\ calls' = [calls EXCEPT ![c] = Call("done", "create", NullId, v, e[1])]
             /\ last' = Outcome("create", NullId, e[1], e[2], 0)
     /\ UNCHANGED <<depts, employees, positions>>

(* variant: the write looks the name up again and refuses a duplicate *)
createCommitRechecks(c) ==
  LET v == calls[c].v
      newId == Len(depts) + 1
  IN /\ calls[c].pc = "checked"
     /\ calls[c].op = "create"
     /\ IF nameTaken(depts, v.name, NullId)
        THEN /\ depts' = depts
             /\ calls' = [calls EXCEPT
                  ![c] = Call("done", "create", NullId, v, "ValidationError")]
             /\ last' = Outcome("create", NullId, "ValidationError",
                                "Department name already exists", 0)
        ELSE /\ depts' = Append(depts,
                  [name |-> v.name, managerId |-> v.managerId,
                   parentId |-> v.parentId, description |-> v.description,
                   isActive |-> v.isActive])
             /\ calls' = [calls EXCEPT ![c] = Call("done", "create", newId, v, "none")]
             /\ last' = Success("create", newId)
     /\ UNCHANGED <<employees, positions>>

createCommit(c) ==
  LET v == calls[c].v
      newId == Len(depts) + 1
  IN /\ calls[c].pc = "checked"
     /\ calls[c].op = "create"
     /\ depts' = Append(depts,
          [name |-> v.name, managerId |-> v.managerId,
           parentId |-> v.parentId, description |-> v.description,
           isActive |-> v.isActive])
     /\ calls' = [calls EXCEPT ![c] = Call("done", "create", newId, v, "none")]
     /\ last' = Success("create", newId)
     /\ UNCHANGED <<employees, positions>>

updateBegin(c, id, data, userRole) ==
  LET v == updateDepartmentSchema(data)
      e == updateError(id, data, userRole)
  IN /\ calls[c].pc # "checked"
     /\ IF e[1] = "none"
        THEN /\ calls' = [calls EXCEPT ![c] = Call("checked", "update", id, v, "none")]
             /\ last' = last
        ELSE /\ calls' = [calls EXCEPT ![c] = Call("done", "update", id, v, e[1])]
             /\ last' = Outcome("update", id, e[1], e[2], 0)
     /\ UNCHANGED <<depts, employees, positions>>

(* variant: the write runs the cycle check again and refuses a cycle *)
updateCommitRechecks(c) ==
  LET v == calls[c].v
      id == calls[c].id
  IN /\ calls[c].pc = "checked"
     /\ calls[c].op = "update"
     /\ IF /\ "parentId" \in v.has
           /\ v.parentId # NullId
           /\ checkCircularReference(depts, id, v.parentId)
        THEN /\ depts' = depts
             /\ calls' = [calls EXCEPT
                  ![c] = Call("done", "update", id, v, "ValidationError")]
             /\ last' = Outcome("update", id, "ValidationError",
                          "Cannot create circular parent-child relationship", 0)
        ELSE /\ depts' = [depts EXCEPT ![id] = updateData(depts[id], v)]
             /\ calls' = [calls EXCEPT ![c] = Call("done", "update", id, v, "none")]
             /\ last' = Success("update", id)
     /\ UNCHANGED <<employees, positions>>

updateCommit(c) ==
  LET v == calls[c].v
      id == calls[c].id
  IN /\ calls[c].pc = "checked"
     /\ calls[c].op = "update"
     /\ depts' = [depts EXCEPT ![id] = updateData(depts[id], v)]
     /\ calls' = [calls EXCEPT ![c] = Call("done", "update", id, v, "none")]
     /\ last' = Success("update", id)
     /\ UNCHANGED <<employees, positions>>

deleteBegin(c, id, userRole) ==
  LET e == deleteError(id, userRole)
  IN /\ calls[c].pc # "checked"
     /\ IF e[1] = "none"
        THEN /\ calls' = [calls EXCEPT
                  ![c] = Call("checked", "delete", id, IdleCall.v, "none")]
             /\ last' = last
        ELSE /\ calls' = [calls EXCEPT
                  ![c] = Call("done", "delete", id, IdleCall.v, e[1])]
             /\ last' = Outcome("delete", id, e[1], e[2], e[3])
     /\ UNCHANGED <<depts, employees, positions>>

deleteCommit(c) ==
  LET id == calls[c].id
  IN /\ calls[c].pc = "checked"
     /\ calls[c].op = "delete"
     /\ depts' = [depts EXCEPT ![id].isActive = FALSE, ![id].managerId = NullId]
     /\ calls' = [calls EXCEPT
          ![c] = Call("done", "delete", id, IdleCall.v, "none")]
     /\ last' = Success("delete", id)
     /\ UNCHANGED <<employees, positions>>

(* a request that passed its lookups has not returned yet *)
Began(c) ==
  /\ response' = IF calls'[c].pc = "checked" THEN response ELSE NoResponse
  /\ UNCHANGED <<softDeleted, ui>>

Committed == response' = NoResponse /\ UNCHANGED <<softDeleted, ui>>

CreateBegins ==
  \E c \in Calls : \E userRole \in WriteRoles : \E n \in RawNames :
    createBegin(c, NameOnly(n), userRole) /\ Began(c)

CreateCommits == \E c \in Calls : createCommit(c) /\ Committed

UpdateBegins ==
  \E c \in Calls : \E userRole \in WriteRoles : \E id \in DeptIds :
    \E p \in ParentValues :
      updateBegin(c, id, ParentOnly(p), userRole) /\ Began(c)

UpdateCommits == \E c \in Calls : updateCommit(c) /\ Committed

NextRace == CreateBegins \/ CreateCommits \/ UpdateBegins \/ UpdateCommits

SpecRace == Init /\ [][NextRace]_vars

(* ---------------- interleaved soft deletes ---------------- *)
CreateChild ==
  \E data \in ParentCreatePayloads \cup {NameOnly(n) : n \in RawNames} :
    createDepartment(data, "ADMIN") /\ Returned

DeleteBegins ==
  \E c \in Calls : \E userRole \in Roles : \E id \in DeptIds :
    deleteBegin(c, id, userRole) /\ Began(c)

DeleteCommits == \E c \in Calls : deleteCommit(c) /\ Committed

NextRaceDelete == CreateChild \/ DeleteBegins \/ DeleteCommits

SpecRaceDelete == Init /\ [][NextRaceDelete]_vars

(* ---------------- the hierarchy reads beside interleaved updates ------- *)
CreateNamed ==
  \E n \in RawNames :
    createDepartment(NameOnly(n), "ADMIN")
      /\ Returned

GetHierarchy ==
  \E userRole \in Roles : \E id \in DeptIds \cup {NullId} :
    getDepartmentHierarchy(id, userRole) /\ UNCHANGED <<softDeleted, calls, ui>>

RouteHierarchy ==
  \E userRole \in Roles : \E id \in DeptIds :
    routeHierarchy(id, userRole) /\ UNCHANGED <<softDeleted, calls, ui>>

NextWalk ==
  \/ CreateNamed
  \/ UpdateBegins
  \/ UpdateCommits
  \/ GetHierarchy
  \/ RouteHierarchy

SpecWalk == Init /\ [][NextWalk]_vars

(* ---------------- the reads beside the writes ---------------- *)
DefaultParams(userRole) ==
  [userRole |-> userRole, page |-> 1, limit |-> DefaultLimit,
   isActive |-> "undefined", parentId |-> NullId, search |-> NoSearch,
   sortBy |-> "name", sortOrder |-> "asc"]

(* the defaults with one group of parameters set *)
ListParams(userRole) ==
  {[DefaultParams(userRole) EXCEPT !.page = pg, !.limit = l] :
     pg \in 0..MaxPage, l \in {0, 1, DefaultLimit, LimitMax + 1}}
  \cup {[DefaultParams(userRole) EXCEPT !.sortBy = sb, !.sortOrder = so, !.limit = 1] :
          sb \in {"name", "createdAt"}, so \in {"asc", "desc"}}
  \cup {[DefaultParams(userRole) EXCEPT !.isActive = a] : a \in {"true", "false"}}
  \cup {[DefaultParams(userRole) EXCEPT !.parentId = p] : p \in DeptIds}
  \cup {[DefaultParams(userRole) EXCEPT !.search = q] :
          q \in SeqsUpTo(NameAlphabet \cup DescAlphabet, 1)}

List ==
  \E userRole \in Roles : \E params \in ListParams(userRole) :
    getDepartments(params) /\ UNCHANGED <<softDeleted, calls, ui>>

GetById ==
  \E userRole \in Roles : \E id \in DeptIds \cup {NullId} :
    getDepartmentById(id, userRole) /\ UNCHANGED <<softDeleted, calls, ui>>

ListActive ==
  \E userRole \in Roles :
    getActiveDepartments(userRole) /\ UNCHANGED <<softDeleted, calls, ui>>

NextReads ==
  \/ CreateLifecycle
  \/ UpdateLifecycle
  \/ Delete
  \/ List
  \/ GetById
  \/ GetHierarchy
  \/ ListActive

SpecReads == Init /\ [][NextReads]_vars

(* ---------------- updates whose cycle walk meets failing lookups ------- *)
UpdateFailing ==
  \E userRole \in WriteRoles : \E id \in DeptIds : \E p \in ParentValues :
    \E failing \in SUBSET DeptIds :
      updateDepartmentUnder(id, ParentOnly(p), userRole, failing) /\ Returned

NextFailing == CreateNamed \/ UpdateFailing \/ Delete

SpecFailing == Init /\ [][NextFailing]_vars

(* ---------------- getById beside changing dependents ---------------- *)
NextExpansion ==
  CreateLifecycle \/ Delete \/ EmployeeChange \/ PositionChange \/ GetById

SpecExpansion == Init /\ [][NextExpansion]_vars

(* ---------------- a deep hierarchy ---------------- *)
(* The store after DeepLen + 1 creates: departments 1..DeepLen form one    *)
(* chain (department i + 1 is the child of department i, department 1 is   *)
(* the root) and department DeepLen + 1 is a second, unrelated root.  The  *)
(* names are distinct two-letter names.                                    *)
DeepLetters == <<"a", "b", "c", "d", "e", "f", "g", "h">>

DeepName(i) ==
  <<DeepLetters[(i \div Len(DeepLetters)) + 1],
    DeepLetters[(i % Len(DeepLetters)) + 1]>>

DeepDepartment(i) ==
  [name |-> DeepName(i), managerId |-> NullId,
   parentId |-> IF i \in 2..DeepLen THEN i - 1 ELSE NullId,
   description |-> NullStr, isActive |-> TRUE]

DeepStore == [i \in 1..(DeepLen + 1) |-> DeepDepartment(i)]

DeepRoots == {1, DeepLen + 1}

InitDeep ==
  /\ depts = DeepStore
  /\ employees = [e \in EmployeeIds |->
        [departmentId |-> NullId, employmentStatus |-> "ACTIVE"]]
  /\ positions = [p \in PositionIds |->
        [departmentId |-> NullId, isActive |-> FALSE]]
  /\ last = Outcome("init", NullId, "none", "", 0)
  /\ softDeleted = {}
  /\ calls = [c \in Calls |-> IdleCall]
  /\ response = NoResponse
  /\ ui = InitialUi

(* update(id, {parentId: p}) on the two roots of the deep store *)
Reparent ==
  \E userRole \in WriteRoles : \E id \in DeepRoots :
    \E p \in DOMAIN depts \cup {NullId} :
      updateDepartment(id, ParentOnly(p), userRole) /\ Returned

DeepProbes == {1, hierarchyLimit, hierarchyLimit + 1, DeepLen, DeepLen + 1}

HierarchyDeep ==
  \E userRole \in ReadRoles : \E id \in DeepProbes :
    getDepartmentHierarchy(id, userRole) /\ UNCHANGED <<softDeleted, calls, ui>>

NextDeep == Reparent \/ HierarchyDeep

SpecDeep == InitDeep /\ [][NextDeep]_vars

(* ---------------- the cycle check on any stored relation ------------- *)
(* The store after CycleDepts creates and as many re-parenting updates     *)
(* that all ran their lookups before any of them wrote: every department   *)
(* has any other department, or none, as its parent.                       *)
CycleStores ==
  {[i \in 1..CycleDepts |-> [DeepDepartment(DeepLen + i) EXCEPT !.parentId = f[i]]] :
     f \in {g \in [1..CycleDepts -> 0..CycleDepts] : \A i \in 1..CycleDepts : g[i] # i}}

InitCycle ==
  /\ depts \in CycleStores
  /\ employees = [e \in EmployeeIds |->
        [departmentId |-> NullId, employmentStatus |-> "ACTIVE"]]
  /\ positions = [p \in PositionIds |->
        [departmentId |-> NullId, isActive |-> FALSE]]
  /\ last = Outcome("init", NullId, "none", "", 0)
  /\ softDeleted = {}
  /\ calls = [c \in Calls |-> IdleCall]
  /\ response = NoResponse
  /\ ui = InitialUi

(* the outcome of one run of a cycle check: the value returned and the     *)
(* number of lookups made                                                  *)
Checked(op, departmentId, r) ==
  /\ last' = Outcome(op, departmentId, IF r.running THEN "running" ELSE "none",
                     IF r.value THEN "true" ELSE "false", r.lookups)
  /\ UNCHANGED <<depts, employees, positions>>
  /\ Returned

CheckCircular ==
  \E departmentId \in DOMAIN depts : \E parentId \in DOMAIN depts :
    Checked("checkCircularReference", departmentId,
            checkCircularReferenceRun(depts, departmentId, parentId))

RouteCheckCircular ==
  \E departmentId \in DOMAIN depts : \E parentId \in DOMAIN depts :
    Checked("routeCheckCircularReference", departmentId,
            routeCheckCircularReferenceRun(depts, departmentId, parentId))

ReparentAny ==
  \E id \in DOMAIN depts : \E p \in DOMAIN depts \cup {NullId} :
    updateDepartment(id, ParentOnly(p), "ADMIN") /\ Returned

NextCycle == CheckCircular \/ RouteCheckCircular \/ ReparentAny

SpecCycle == InitCycle /\ [][NextCycle]_vars

(* ---------------- the Departments page over a store of two pages ------ *)
(* The store after UiDepts creates of root departments with distinct       *)
(* names; the page has just been mounted by an ADMIN.                      *)
UiStore ==
  [i \in 1..UiDepts |-> [DeepDepartment(i) EXCEPT !.parentId = NullId]]

InitUi ==
  /\ depts = UiStore
  /\ employees = [e \in EmployeeIds |->
        [departmentId |-> NullId, employmentStatus |-> "ACTIVE"]]
  /\ positions = [p \in PositionIds |->
        [departmentId |-> NullId, isActive |-> FALSE]]
  /\ last = Outcome("init", NullId, "none", "", 0)
  /\ softDeleted = {}
  /\ calls = [c \in Calls |-> IdleCall]
  /\ response = NoResponse
  /\ ui = InitialUi

UiSearches == {<<>>, <<"a">>, <<"b">>, <<" ">>}

UiErrors ==
  {[response |-> r, status |-> st] :
     r \in {0, 400, 404, 499, 500, 503}, st \in {0, 404}}

UiDeleteProbes == {1, UiDepts}

InServer == UNCHANGED <<softDeleted, calls, response>>

SearchChanged == \E q \in UiSearches : searchChanged(q) /\ InServer

PreviousClicked == previousClicked /\ InServer

NextClicked == nextClicked /\ InServer

HandleRetry == handleRetry /\ InServer

HandleDelete == \E id \in UiDeleteProbes : handleDelete(id) /\ InServer

FetchSucceeds == fetchSucceeds /\ InServer

FetchFails == \E error \in UiErrors : fetchFails(error) /\ InServer

NextUi ==
  \/ SearchChanged
  \/ PreviousClicked
  \/ NextClicked
  \/ HandleRetry
  \/ HandleDelete
  \/ FetchSucceeds
  \/ FetchFails

SpecUi == InitUi /\ [][NextUi]_vars

(* ---------------- the parent relation ---------------- *)
RECURSIVE reaches(_, _, _, _)
reaches(d, from, target, n) ==
  /\ n > 0
  /\ exists(d, from)
  /\ d[from].parentId # NullId
  /\ \/ d[from].parentId = target
     \/ reaches(d, d[from].parentId, target, n - 1)

(* a is reached from x by following parentId one or more times *)
isAncestor(d, a, x) == reaches(d, x, a, Len(d))

Acyclic(d) == \A i \in DOMAIN d : ~isAncestor(d, i, i)

hasDependents(id) ==
  \/ activeEmployees(id) # {}
  \/ activeChildren(depts, id) # {}
  \/ activePositions(id) # {}

(* C1: after any sequence of create, update and softDelete calls run one   *)
(* at a time, no department is reached from itself by following parentId.  *)
ParentRelationAcyclic == Acyclic(depts)

(* C2: no step changes a department's isActive from true to false while an *)
(* active employee, active child or active position references it.         *)
NoDeactivationWithDependents ==
  [][\A id \in DOMAIN depts :
       (depts[id].isActive /\ hasDependents(id)) => depts'[id].isActive]_vars

(* C3 as stated: once isActive is false it stays false, whatever the call. *)
InactiveStaysInactive ==
  [][\A id \in DOMAIN depts : ~depts[id].isActive => ~depts'[id].isActive]_vars

(* C3: a department's isActive goes from false to true only in a           *)
(* successful update of that department whose payload carries              *)
(* isActive: true; no create and no softDelete reactivates.                *)
ReactivationOnlyByUpdate ==
  [][\A id \in DOMAIN depts :
       (~depts[id].isActive /\ depts'[id].isActive) =>
         /\ last'.op = "update"
         /\ last'.id = id
         /\ last'.error = "none"
         /\ \E userRole \in WriteRoles : \E data \in UpdatePayloads :
              /\ "isActive" \in data.has
              /\ data.isActive
              /\ updateDepartment(id, data, userRole)]_vars

(* a soft-deleted department sits in the store, still inactive after a     *)
(* later successful update of it, and another one has been reactivated     *)
ReactivationWitness ==
  /\ last.op = "update"
  /\ last.error = "none"
  /\ last.id \in softDeleted
  /\ ~depts[last.id].isActive
  /\ \E id \in softDeleted : depts[id].isActive

(* C4: no two distinct stored departments have names that are equal when   *)
(* compared case-insensitively.                                            *)
NamesUniqueInsensitive ==
  \A i, j \in DOMAIN depts :
    i # j => ~equalsInsensitive(depts[i].name, depts[j].name)

(* C5: update(id, {parentId: p}) with p an existing active department and *)
(* id equal to p or an ancestor of p at any distance fails with the        *)
(* circular-relationship ValidationError and leaves the store unchanged.   *)
CircularUpdateRejected ==
  [][\A id \in DOMAIN depts : \A p \in DOMAIN depts :
       (/\ last'.op = "update"
        /\ last'.id = id
        /\ parentIsActive(depts, p)
        /\ (id = p \/ isAncestor(depts, id, p))
        /\ updateDepartment(id, ParentOnly(p), "ADMIN"))
       => (/\ last'.error = "ValidationError"
           /\ last'.message = "Cannot create circular parent-child relationship"
           /\ depts' = depts)]_vars

(* C6: on a forest, checkCircularReference(d, p) is true exactly when d = p *)
(* or d is an ancestor of p.                                                *)
DetectCycleExact ==
  Acyclic(depts) =>
    \A d, p \in DOMAIN depts :
      checkCircularReference(depts, d, p) <=> (d = p \/ isAncestor(depts, d, p))

(* ---------------- softDelete ---------------- *)
Rejected(message, count) ==
  /\ last'.error = "ValidationError"
  /\ last'.message = message
  /\ last'.count = count
  /\ depts' = depts

(* C7: softDelete of an active department by a write role is rejected with *)
(* the count of the first nonzero category among active employees, active  *)
(* children, active positions (in that order) and writes nothing; with all *)
(* three counts zero it succeeds.                                          *)
SoftDeleteDependencyGuard ==
  [][\A id \in DOMAIN depts : \A userRole \in WriteRoles :
       (depts[id].isActive /\ deleteDepartment(id, userRole)) =>
         LET ne == Cardinality(activeEmployees(id))
             nc == Cardinality(activeChildren(depts, id))
             np == Cardinality(activePositions(id))
         IN IF ne > 0
              THEN Rejected("Cannot delete department with active employee(s)", ne)
            ELSE IF nc > 0
              THEN Rejected(
                     "Cannot delete department with active child department(s)", nc)
            ELSE IF np > 0
              THEN Rejected("Cannot delete department with active position(s)", np)
            ELSE last'.error = "none" /\ ~depts'[id].isActive]_vars

(* a softDelete was rejected for its active child while an active position *)
(* also references the department and no active employee does              *)
SoftDeleteGuardWitness ==
  /\ last.op = "delete"
  /\ last.error = "ValidationError"
  /\ last.message = "Cannot delete department with active child department(s)"
  /\ last.count = 1
  /\ activeEmployees(last.id) = {}
  /\ activePositions(last.id) # {}

(* C8: a successful softDelete of d sets d.isActive to false and           *)
(* d.managerId to null in one step and leaves d's name, description and    *)
(* parentId and every other department unchanged.                          *)
SoftDeleteFrame ==
  [][\A id \in DOMAIN depts :
       (last'.op = "delete" /\ last'.id = id /\ last'.error = "none") =>
         /\ DOMAIN depts' = DOMAIN depts
         /\ depts'[id].isActive = FALSE
         /\ depts'[id].managerId = NullId
         /\ depts'[id].name = depts[id].name
         /\ depts'[id].description = depts[id].description
         /\ depts'[id].parentId = depts[id].parentId
         /\ \A j \in DOMAIN depts : j # id => depts'[j] = depts[j]]_vars

(* a softDelete has just succeeded on a child department that has a        *)
(* description, beside a parent that still has its manager                 *)
SoftDeleteFrameWitness ==
  /\ last.op = "delete"
  /\ last.error = "none"
  /\ ~depts[last.id].isActive
  /\ depts[last.id].managerId = NullId
  /\ depts[last.id].parentId # NullId
  /\ depts[last.id].description # NullStr
  /\ depts[depts[last.id].parentId].managerId # NullId

(* C9 as stated: softDelete of an inactive department is rejected and      *)
(* writes nothing, and a department whose softDelete has succeeded once is *)
(* never soft-deleted successfully again.                                  *)
SecondSoftDeleteAlwaysRejected ==
  [][/\ \A id \in DOMAIN depts : \A userRole \in WriteRoles :
          (~depts[id].isActive /\ deleteDepartment(id, userRole)) =>
            Rejected("Department is already inactive", 0)
     /\ \A id \in softDeleted :
          ~(last'.op = "delete" /\ last'.id = id /\ last'.error = "none")]_vars

(* C9: softDelete of an inactive department is rejected with 'Department   *)
(* is already inactive' and writes nothing; a department whose softDelete  *)
(* has succeeded is soft-deleted again only if it was active again.        *)
AlreadyInactiveRejected ==
  [][/\ \A id \in DOMAIN depts : \A userRole \in WriteRoles :
          (~depts[id].isActive /\ deleteDepartment(id, userRole)) =>
            Rejected("Department is already inactive", 0)
     /\ \A id \in softDeleted :
          (last'.op = "delete" /\ last'.id = id /\ last'.error = "none") =>
            depts[id].isActive]_vars

(* a second softDelete of a soft-deleted department has been rejected *)
AlreadyInactiveWitness ==
  /\ last.op = "delete"
  /\ last.id \in softDeleted
  /\ last.error = "ValidationError"
  /\ last.message = "Department is already inactive"
  /\ ~depts[last.id].isActive

(* ---------------- update ---------------- *)
(* C10: a successful update(id, data) stores, for every field present in   *)
(* data, the value of the payload (name and description as the schema      *)
(* normalises them), keeps every omitted field and modifies no other       *)
(* department.                                                             *)
PartialUpdateFrame ==
  [][\A id \in DOMAIN depts :
       (last'.op = "update" /\ last'.id = id /\ last'.error = "none") =>
         \A userRole \in WriteRoles : \A data \in UpdatePayloads :
           updateDepartment(id, data, userRole) =>
             /\ DOMAIN depts' = DOMAIN depts
             /\ \A j \in DOMAIN depts : j # id => depts'[j] = depts[j]
             /\ depts'[id].name =
                  (IF "name" \in data.has THEN trim(data.name) ELSE depts[id].name)
             /\ depts'[id].description =
                  (IF "description" \in data.has
                   THEN descriptionTransform(data.description)
                   ELSE depts[id].description)
             /\ depts'[id].managerId =
                  (IF "managerId" \in data.has THEN data.managerId
                   ELSE depts[id].managerId)
             /\ depts'[id].parentId =
                  (IF "parentId" \in data.has THEN data.parentId
                   ELSE depts[id].parentId)
             /\ depts'[id].isActive =
                  (IF "isActive" \in data.has THEN data.isActive
                   ELSE depts[id].isActive)]_vars

(* an update has just succeeded on an inactive department that still has a *)
(* manager, a parent and a description                                     *)
PartialUpdateWitness ==
  /\ last.op = "update"
  /\ last.error = "none"
  /\ ~depts[last.id].isActive
  /\ depts[last.id].managerId # NullId
  /\ depts[last.id].parentId # NullId
  /\ depts[last.id].description # NullStr

(* ---------------- interleaved requests ---------------- *)
(* C11: an update(A, {parentId: B}) that passed its lookups commits its    *)
(* write although update(B, {parentId: A}) has written in between: the     *)
(* write is not refused and the parent relation then contains a cycle.     *)
RacingUpdatesCommitCycle ==
  [][\A c1, c2 \in Calls :
       (/\ c1 # c2
        /\ calls[c1].pc = "checked" /\ calls[c1].op = "update"
        /\ calls[c2].pc = "done" /\ calls[c2].op = "update"
        /\ calls[c2].error = "none"
        /\ calls[c1].v.parentId = calls[c2].id
        /\ calls[c2].v.parentId = calls[c1].id
        /\ calls[c1].id # calls[c2].id
        /\ depts[calls[c2].id].parentId = calls[c1].id
        /\ calls'[c1].pc = "done")
       => (/\ calls'[c1].error = "none"
           /\ depts'[calls[c1].id].parentId = calls[c2].id
           /\ ~Acyclic(depts'))]_vars

(* both cross re-parenting updates have succeeded and each of the two      *)
(* active departments is the parent of the other                          *)
RacingUpdatesWitness ==
  /\ \A c \in Calls :
       calls[c].pc = "done" /\ calls[c].op = "update" /\ calls[c].error = "none"
  /\ calls[1].id # calls[2].id
  /\ calls[1].v.parentId = calls[2].id
  /\ calls[2].v.parentId = calls[1].id
  /\ depts[calls[1].id].parentId = calls[2].id
  /\ depts[calls[2].id].parentId = calls[1].id
  /\ depts[calls[1].id].isActive /\ depts[calls[2].id].isActive
  /\ ~Acyclic(depts)

(* C12: a create that passed its uniqueness lookup commits its write       *)
(* although another create has stored a case-insensitively equal name in   *)
(* between: it succeeds and the store holds two departments of that name.  *)
RacingCreatesCommitDuplicate ==
  [][\A c1, c2 \in Calls :
       (/\ c1 # c2
        /\ calls[c1].pc = "checked" /\ calls[c1].op = "create"
        /\ calls[c2].pc = "done" /\ calls[c2].op = "create"
        /\ calls[c2].error = "none"
        /\ equalsInsensitive(calls[c1].v.name, calls[c2].v.name)
        /\ equalsInsensitive(depts[calls[c2].id].name, calls[c2].v.name)
        /\ calls'[c1].pc = "done")
       => (/\ calls'[c1].error = "none"
           /\ Len(depts') = Len(depts) + 1
           /\ depts'[calls'[c1].id].name = calls[c1].v.name
           /\ depts'[calls[c2].id].name = depts[calls[c2].id].name
           /\ calls'[c1].id # calls[c2].id)]_vars

(* both creates have succeeded and the store holds 'a' and 'A' *)
RacingCreatesWitness ==
  /\ \A c \in Calls :
       calls[c].pc = "done" /\ calls[c].op = "create" /\ calls[c].error = "none"
  /\ calls[1].id # calls[2].id
  /\ depts[calls[1].id].name # depts[calls[2].id].name
  /\ equalsInsensitive(depts[calls[1].id].name, depts[calls[2].id].name)

(* ---------------- lookups that fail, ancestor paths ---------------- *)
(* C18: when the first lookup of the cycle walk finds no record or throws, *)
(* checkCircularReference returns false and the update writes the new      *)
(* parentId instead of failing.                                            *)
LookupFailureFailsOpen ==
  [][\A id \in DOMAIN depts : \A p \in DOMAIN depts :
       \A failing \in SUBSET DeptIds :
         (/\ id # p
          /\ p \in failing
          /\ parentIsActive(depts, p)
          /\ updateDepartmentUnder(id, ParentOnly(p), "ADMIN", failing))
         => (/\ ~checkCircularReferenceUnder(depts, id, p, failing)
             /\ last'.op = "update"
             /\ last'.error = "none"
             /\ depts'[id].parentId = p)]_vars

(* an update has succeeded in making a department the child of its own     *)
(* child: the walk met a failing lookup before it came back to the         *)
(* department                                                              *)
LookupFailureWitness ==
  /\ last.op = "update"
  /\ last.error = "none"
  /\ depts[last.id].parentId # NullId
  /\ depts[depts[last.id].parentId].parentId = last.id

(* C19: on a forest, a successful getHierarchy(d) returns a path whose     *)
(* first element has no parent, whose last element is d and in which each  *)
(* element is the parent of the next.                                      *)
HierarchyPathRootFirst ==
  (last.op = "hierarchy" /\ last.error = "none" /\ Acyclic(depts)) =>
    LET hierarchyPath == response.hierarchyPath
    IN /\ Len(hierarchyPath) >= 1
       /\ depts[hierarchyPath[1].id].parentId = NullId
       /\ hierarchyPath[Len(hierarchyPath)].id = last.id
       /\ \A i \in 1..(Len(hierarchyPath) - 1) :
            depts[hierarchyPath[i + 1].id].parentId = hierarchyPath[i].id

(* C20: the ancestor walk of the hierarchy read, in the service and in the *)
(* route, has returned after at most hierarchyLimit entries, also on a     *)
(* parent relation that contains a cycle.                                  *)
HierarchyWalkTerminates ==
  last.op \in {"hierarchy", "routeHierarchy"} =>
    /\ last.error # "running"
    /\ Len(response.hierarchyPath) <= hierarchyLimit

(* ---------------- create and update: parent, isActive, name ------------ *)
WithoutParent(data) ==
  [data EXCEPT !.has = data.has \ {"parentId"}, !.parentId = NullId]

ParentRejected ==
  /\ last'.error = "ValidationError"
  /\ last'.message = "Parent department not found or not active"

(* C14: a create or update whose payload carries a non-null parentId that  *)
(* is not the id of a stored, active department writes nothing and fails;  *)
(* it fails with 'Parent department not found or not active' when the same *)
(* call without the parentId would have succeeded.                         *)
ParentMustBeActive ==
  [][\A userRole \in WriteRoles :
       /\ \A data \in ParentCreatePayloads :
            (/\ ~(data.parentId \in DOMAIN depts /\ depts[data.parentId].isActive)
             /\ createDepartment(data, userRole))
            => (/\ depts' = depts
                /\ last'.error # "none"
                /\ createError(WithoutParent(data), userRole)[1] = "none"
                      => ParentRejected)
       /\ \A id \in DOMAIN depts : \A p \in DeptIds :
            (/\ ~(p \in DOMAIN depts /\ depts[p].isActive)
             /\ updateDepartment(id, ParentOnly(p), userRole))
            => (/\ depts' = depts
                /\ last'.error # "none"
                /\ updateError(id, WithoutParent(ParentOnly(p)), userRole)[1] = "none"
                      => ParentRejected)]_vars

(* an update naming a stored but inactive parent has been rejected, and so *)
(* nothing was written: both departments are still roots                   *)
ParentMustBeActiveWitness ==
  /\ last.op = "update"
  /\ last.error = "ValidationError"
  /\ last.message = "Parent department not found or not active"
  /\ Len(depts) = 2
  /\ \E i \in DOMAIN depts : ~depts[i].isActive
  /\ \A i \in DOMAIN depts : depts[i].parentId = NullId

(* C15 as stated: the department stored by a successful create is active,  *)
(* whatever the accepted payload.                                          *)
CreatedIsActive ==
  (last.op = "create" /\ last.error = "none") => depts[last.id].isActive

(* C15: the department stored by a successful create has the isActive of   *)
(* the payload when the payload carries one, and is active otherwise.      *)
CreatedIsActiveUnlessAsked ==
  [][(last'.op = "create" /\ last'.error = "none") =>
       \A userRole \in WriteRoles : \A data \in CreatePayloads :
         createDepartment(data, userRole) =>
           depts'[last'.id].isActive =
             (IF "isActive" \in data.has THEN data.isActive ELSE TRUE)]_vars

(* a create with isActive: false has just stored an inactive department    *)
(* beside one that was created active                                      *)
CreatedIsActiveWitness ==
  /\ last.op = "create"
  /\ last.error = "none"
  /\ last.id = 2
  /\ ~depts[2].isActive
  /\ depts[1].isActive

(* C16: every stored name is non-empty after trimming and at most NameMax  *)
(* characters long.                                                        *)
StoredNamesNonEmpty ==
  \A i \in DOMAIN depts :
    trim(depts[i].name) # <<>> /\ Len(depts[i].name) <= NameMax

(* C17: no step removes a department: the stored ids only grow, a create   *)
(* leaves every stored record at its id and an update or softDelete        *)
(* changes at most the record of its own id.                               *)
NeverRemoved ==
  [][/\ DOMAIN depts \subseteq DOMAIN depts'
     /\ \A i \in DOMAIN depts :
          (last'.op = "create" \/ i # last'.id) => depts'[i] = depts[i]]_vars

(* a softDelete has succeeded on the first of two departments and both     *)
(* records are still stored                                                *)
NeverRemovedWitness ==
  /\ last.op = "delete"
  /\ last.error = "none"
  /\ last.id = 1
  /\ Len(depts) = 2
  /\ ~depts[1].isActive

(* ---------------- authorization ---------------- *)
Unauthorized == last'.error = "UnauthorizedError" /\ depts' = depts

IdRequired ==
  /\ last'.error = "ValidationError"
  /\ last'.message = "Department ID is required"
  /\ depts' = depts

(* the reads accept exactly ADMIN, HR and MANAGER: a role among them is    *)
(* never refused as unauthorized, any other role never gets an answer, and *)
(* is refused as unauthorized when its arguments are well-formed           *)
ReadAccepts(userRole, wellFormed) ==
  /\ userRole \in {"ADMIN", "HR", "MANAGER"} => last'.error # "UnauthorizedError"
  /\ userRole \notin {"ADMIN", "HR", "MANAGER"} =>
       /\ last'.error # "none"
       /\ response' = NoResponse
       /\ wellFormed => last'.error = "UnauthorizedError"

(* no step is a read that answers otherwise *)
ReadsAcceptReadRoles ==
  /\ last'.op = "list" =>
       \A userRole \in Roles : \A params \in ListParams(userRole) :
         ~ReadAccepts(userRole, getDepartmentsSchema(params)) =>
           ~getDepartments(params)
  /\ last'.op = "getById" =>
       \A userRole \in Roles : \A id \in DeptIds \cup {NullId} :
         ~ReadAccepts(userRole, id # NullId) => ~getDepartmentById(id, userRole)
  /\ last'.op = "hierarchy" =>
       \A userRole \in Roles : \A id \in DeptIds \cup {NullId} :
         ~ReadAccepts(userRole, id # NullId) =>
           ~getDepartmentHierarchy(id, userRole)
  /\ last'.op = "listActive" =>
       \A userRole \in Roles :
         ~ReadAccepts(userRole, TRUE) => ~getActiveDepartments(userRole)

(* C13 as stated: create, update and softDelete by a role other than ADMIN *)
(* or HR fail with an Unauthorized error and write nothing; the four reads *)
(* accept exactly ADMIN, HR and MANAGER.                                   *)
WritesNeedWriteRole ==
  [][/\ \A userRole \in Roles \ {"ADMIN", "HR"} :
          /\ ~Unauthorized => ~createDepartment(EmptyPayload, userRole)
          /\ \A id \in DeptIds \cup {NullId} :
               /\ ~Unauthorized => ~updateDepartment(id, EmptyPayload, userRole)
               /\ ~Unauthorized => ~deleteDepartment(id, userRole)
     /\ ReadsAcceptReadRoles]_vars

(* C13: create by a role other than ADMIN or HR fails with an Unauthorized *)
(* error; update and softDelete do so when they are given an id and fail   *)
(* with 'Department ID is required' when they are not; none of them        *)
(* writes.  The four reads accept exactly ADMIN, HR and MANAGER.           *)
WritesNeedWriteRoleGivenId ==
  [][/\ \A userRole \in Roles \ {"ADMIN", "HR"} :
          /\ ~Unauthorized => ~createDepartment(EmptyPayload, userRole)
          /\ \A id \in DeptIds \cup {NullId} :
               /\ ~(IF id = NullId THEN IdRequired ELSE Unauthorized) =>
                    ~updateDepartment(id, EmptyPayload, userRole)
               /\ ~(IF id = NullId THEN IdRequired ELSE Unauthorized) =>
                    ~deleteDepartment(id, userRole)
     /\ ReadsAcceptReadRoles]_vars

(* a MANAGER has just been refused a softDelete of an active department    *)
(* that it was able to read before                                         *)
UnauthorizedWitness ==
  /\ last.op = "delete"
  /\ last.error = "UnauthorizedError"
  /\ last.id \in DOMAIN depts
  /\ depts[last.id].isActive
  /\ activeChildren(depts, last.id) = {}

(* ---------------- the reads: expansion, pagination ---------------- *)
(* C21: the expansion returned by getById holds a child department only if *)
(* it is active, an employee only if its employmentStatus is ACTIVE and a  *)
(* position only if it is active.                                          *)
ExpansionOnlyActive ==
  (last.op = "getById" /\ last.error = "none") =>
    /\ \A c \in response.children : c.isActive /\ depts[c.id].isActive
    /\ \A e \in response.employees : employees[e].employmentStatus = "ACTIVE"
    /\ \A p \in response.positions : p.isActive /\ positions[p.id].isActive

(* n is the least integer that is not below T / L *)
IsCeiling(n, T, L) == n * L >= T /\ (n - 1) * L < T

PaginationOf(params) ==
  LET pg == response'.pagination
      T == Cardinality(where(depts, params))
  IN /\ pg.page = params.page
     /\ pg.limit = params.limit
     /\ pg.total = T
     /\ IsCeiling(pg.pages, T, params.limit)
     /\ pg.hasNext = (params.page < pg.pages)
     /\ pg.hasPrev = (params.page > 1)

(* C22: a list call by a read role with limit L in 1..LimitMax, page >= 1  *)
(* and a search term that is absent or non-empty, finding T departments,   *)
(* returns pages = ceil(T / L), hasNext = (page < pages) and               *)
(* hasPrev = (page > 1), also for T = 0 and for a page past the last one.  *)
PaginationArithmetic ==
  [][last'.op = "list" =>
       \A userRole \in ReadRoles : \A params \in ListParams(userRole) :
         (/\ params.limit \in 1..LimitMax
          /\ params.page >= 1
          /\ (params.search = NoSearch \/ Len(params.search) >= 1)
          /\ ~(last'.error = "none" /\ PaginationOf(params)))
         => ~getDepartments(params)]_vars

(* a list call for the page after the last of two one-department pages has *)
(* answered: two pages, nothing next, something before, no department      *)
PaginationWitness ==
  /\ last.op = "list"
  /\ last.error = "none"
  /\ response.pagination.total = 2
  /\ response.pagination.limit = 1
  /\ response.pagination.page = 3
  /\ response.pagination.pages = 2
  /\ ~response.pagination.hasNext
  /\ response.pagination.hasPrev
  /\ response.departments = <<>>

(* ---------------- the cycle check: termination, the two copies --------- *)
(* C23: on every stored parent relation, also one with a cycle that does   *)
(* not pass through departmentId, both copies of checkCircularReference    *)
(* return, after at most as many lookups as there are stored departments,  *)
(* the value of the walk.                                                  *)
CycleCheckTerminates ==
  /\ last.op \in {"checkCircularReference", "routeCheckCircularReference"} =>
       /\ last.error # "running"
       /\ last.count <= Len(depts)
  /\ \A d, p \in DOMAIN depts :
       /\ checkCircularReferenceRun(depts, d, p).value
            = checkCircularReference(depts, d, p)
       /\ routeCheckCircularReferenceRun(depts, d, p).value
            = routeCheckCircularReference(depts, d, p)

(* the route's check has returned true after two lookups for a department  *)
(* that hangs under a cycle of two other departments                       *)
CycleCheckWitness ==
  /\ last.op = "routeCheckCircularReference"
  /\ last.error = "none"
  /\ last.message = "true"
  /\ last.count = 2
  /\ ~isAncestor(depts, last.id, last.id)
  /\ depts[last.id].parentId # NullId
  /\ isAncestor(depts, depts[last.id].parentId, depts[last.id].parentId)

(* C24: on every stored parent relation and for every pair of stored ids,  *)
(* the route's checkCircularReference and the service's return the same    *)
(* boolean.                                                                *)
CycleChecksAgree ==
  \A d, p \in DOMAIN depts :
    routeCheckCircularReference(depts, d, p) = checkCircularReference(depts, d, p)

(* ---------------- the Departments page ---------------- *)
Is4xx(status) == status >= 400 /\ status <= 499

(* C25: the list query is not retried after a failure whose HTTP status is *)
(* in 400..499 and is retried at most MaxRetries times after other         *)
(* failures: one fetch makes at most MaxRetries + 1 attempts.              *)
QueryRetryBound ==
  [][/\ ui'.failureCount <= MaxRetries
     /\ ui'.attempts <= MaxRetries + 1
     /\ \A error \in UiErrors :
          (Is4xx(error.response) /\ fetchFails(error)) =>
            /\ ~ui'.fetching
            /\ ui'.failureCount = ui.failureCount
            /\ ui'.error = error]_vars

(* the third attempt of one fetch has failed with status 503 and the error *)
(* is surfaced                                                             *)
QueryRetryWitness ==
  /\ ~ui.fetching
  /\ ui.attempts = MaxRetries + 1
  /\ ui.failureCount = MaxRetries
  /\ ui.error.response = 503

(* C30: when the list query has answered for the current page and search,  *)
(* the current page is within 1..max(1, pagination.pages) of that answer.  *)
PageWithinPages ==
  (~ui.fetching /\ dataIsCurrent(ui)) =>
    /\ ui.page >= 1
    /\ ui.page <= (IF ui.data.pagination.pages > 1
                   THEN ui.data.pagination.pages ELSE 1)

(* ---------------- invariants of the store, failed calls ---------------- *)
(* C26: after calls run one at a time, every active department with a      *)
(* parentId has a parent that is stored and active.                        *)
ActiveUnderActiveParent ==
  \A i \in DOMAIN depts :
    (depts[i].isActive /\ depts[i].parentId # NullId) =>
      /\ depts[i].parentId \in DOMAIN depts
      /\ depts[depts[i].parentId].isActive

(* C27: after calls run one at a time, every inactive department has no    *)
(* manager.                                                                *)
InactiveHasNoManager ==
  \A i \in DOMAIN depts : ~depts[i].isActive => depts[i].managerId = NullId

(* C28: a create, update or softDelete that ends in an error leaves the    *)
(* three relations as they were.                                           *)
FailedCallWritesNothing ==
  [][last'.error # "none" =>
       /\ last'.op \in {"create", "update", "delete"}
       /\ last'.error \in {"UnauthorizedError", "NotFoundError",
                           "ValidationError", "ZodError"}
       /\ depts' = depts
       /\ employees' = employees
       /\ positions' = positions]_vars

(* an update that would have made the parent the child of its own child    *)
(* has been refused, and the two departments are as they were              *)
FailedCallWitness ==
  /\ last.op = "update"
  /\ last.error = "ValidationError"
  /\ last.message = "Cannot create circular parent-child relationship"
  /\ last.id = 1
  /\ Len(depts) = 2
  /\ depts[1].parentId = NullId
  /\ depts[2].parentId = 1

(* C29: of two softDelete calls on the same department whose steps         *)
(* interleave, at most one returns success (no update reactivates the     *)
(* department in between).                                                 *)
OneSoftDeleteSucceeds ==
  \A c1, c2 \in Calls :
    (/\ c1 # c2
     /\ calls[c1].pc = "done" /\ calls[c1].op = "delete"
     /\ calls[c2].pc = "done" /\ calls[c2].op = "delete"
     /\ calls[c1].id = calls[c2].id
     /\ calls[c1].error = "none")
    => calls[c2].error # "none"

====
